---- MODULE Spec2Model ----
(***************************************************************************)
(* Model of graphix.linalg.MatGF2: matrices over GF(2), Gauss-Jordan       *)
(* forward elimination with row/column permutation tracking, the canonical *)
(* form test, the rank, the symbolic backward substitution, the            *)
(* elementwise algebra and the row/column permutation edits.               *)
(*                                                                         *)
(* Indices are 0-based as in the source.  A matrix is a record             *)
(*   [shape |-> <<rows, cols>>, d |-> [(0..rows-1) \X (0..cols-1) -> GF2]] *)
(* (numpy keeps the shape even when one dimension is 0).                   *)
(***************************************************************************)
EXTENDS Integers, Sequences, FiniteSets, TLC

VARIABLES
    data,             \* self.data: the receiver's matrix
    mat_a,            \* the matrix the local name mat_a refers to
    alias,            \* TRUE iff mat_a and self are the same object
    copy,             \* the copy argument of the forward_eliminate call
    b,                \* the right-hand side (other operand for the algebra)
    row_permutation,  \* forward_eliminate's row_permutation list
    col_permutation,  \* forward_eliminate's col_permutation list
    row,              \* loop variable of the pivot loop
    row_order,        \* row_order[p]: index at call time of the row now at p
    col_order,        \* col_order[p]: index at call time of the column now at p
    x,                \* backward_substitute: returned solution matrix
    kernels,          \* backward_substitute: returned tuple of free symbols
    ret,              \* value returned by get_rank / is_canonical_form / algebra
    arg,              \* index list passed to the last permute_row / permute_col
    A0,               \* receiver's matrix when the session began
    b0,               \* right-hand side when the session began
    calls,            \* names of the methods called so far, in order
    pc                \* position of the caller

vars == <<data, mat_a, alias, copy, b, row_permutation, col_permutation, row,
          row_order, col_order, x, kernels, ret, arg, A0, b0, calls, pc>>

\* ------------------------------------------------------------------ bounds
MaxRows == 3
MaxCols == 3
MaxCells == 9
MaxBCols == 2
MaxBCells == 4
MaxOperand == 3
MaxOperandCells == 4
MaxPermDim == 2
MaxPermCells == 4
MaxPermLen == 3

\* ------------------------------------------------------------ GF(2), shapes
GF2 == {0, 1}

Min(p, q) == IF p <= q THEN p ELSE q

Max(p, q) == IF p >= q THEN p ELSE q

NRows(M) == M.shape[1]

NCols(M) == M.shape[2]

RowIdx(M) == 0 .. (NRows(M) - 1)

ColIdx(M) == 0 .. (NCols(M) - 1)

At(M, i, j) == M.d[<<i, j>>]

\* galois.GF2(data): every matrix of one shape with entries 0/1
MatGF2(n, m) == [shape : {<<n, m>>}, d : [(0 .. n - 1) \X (0 .. m - 1) -> GF2]]

\* np.zeros((n, m))
Zeros(n, m) == [shape |-> <<n, m>>, d |-> [p \in (0 .. n - 1) \X (0 .. m - 1) |-> 0]]

\* GF(2) addition (and subtraction): XOR
GFAdd(p, q) == (p + q) % 2

\* GF(2) multiplication: AND
GFMul(p, q) == (p * q) % 2

\* self.data @ other.data: entry (i, j) is the sum over k, reduced mod 2
MatMul(P, Q) ==
    [shape |-> <<NRows(P), NCols(Q)>>,
     d |-> [p \in RowIdx(P) \X ColIdx(Q) |->
               Cardinality({k \in ColIdx(P) : GFMul(At(P, p[1], k), At(Q, k, p[2])) = 1}) % 2]]

\* list(range(n))
Range(n) == [i \in 0 .. (n - 1) |-> i]

\* list.index(v): the first position holding v
Index(l, v) == CHOOSE i \in DOMAIN l : l[i] = v /\ \A k \in DOMAIN l : l[k] = v => i <= k

\* ---------------------------------------------------------- structural edits
\* self.data[[row1, row2]] = self.data[[row2, row1]]
swap_row(M, row1, row2) ==
    [M EXCEPT !.d = [p \in DOMAIN M.d |->
        IF p[1] = row1 THEN M.d[<<row2, p[2]>>]
        ELSE IF p[1] = row2 THEN M.d[<<row1, p[2]>>]
        ELSE M.d[p]]]

\* self.data[:, [col1, col2]] = self.data[:, [col2, col1]]
swap_col(M, col1, col2) ==
    [M EXCEPT !.d = [p \in DOMAIN M.d |->
        IF p[2] = col1 THEN M.d[<<p[1], col2>>]
        ELSE IF p[2] = col2 THEN M.d[<<p[1], col1>>]
        ELSE M.d[p]]]

\* the order of the rows (columns) after exchanging positions p1 and p2
SwapOrder(order, p1, p2) ==
    [p \in DOMAIN order |->
        IF p = p1 THEN order[p2] ELSE IF p = p2 THEN order[p1] ELSE order[p]]

\* ------------------------------------------------------- is_canonical_form
\* self.data.diagonal()
Diagonal(M) == [i \in 0 .. (Min(NRows(M), NCols(M)) - 1) |-> At(M, i, i)]

\* diag.nonzero()[0] as a set; its length is the number of nonzero entries
NonzeroDiag(M) == {i \in DOMAIN Diagonal(M) : Diagonal(M)[i] # 0}

\* nonzero_diag_index[i]: the i-th (0-based) index of a nonzero diagonal entry
NthNonzeroDiag(M, i) ==
    CHOOSE k \in NonzeroDiag(M) : Cardinality({q \in NonzeroDiag(M) : q < k}) = i

\* The loop over nonzero_diag_index: at the first i whose diagonal entry is 0
\* it returns False unless diag[i:] still holds a nonzero entry (then it
\* breaks).  Every index it visits comes from diag.nonzero().
CanonicalLoopReturnsFalse(M) ==
    LET rank == Cardinality(NonzeroDiag(M))
        hits == {i \in 0 .. (rank - 1) : Diagonal(M)[NthNonzeroDiag(M, i)] = 0}
    IN  /\ hits # {}
        /\ LET i0 == CHOOSE i \in hits : \A k \in hits : i <= k
           IN  {k \in NonzeroDiag(M) : k >= i0} = {}

IsCanonicalBlockOnly(M) ==
    LET rank == Cardinality(NonzeroDiag(M))
    IN  \A i \in 0 .. (rank - 1), j \in 0 .. (rank - 1) :
            GFAdd(At(M, i, j), IF i = j THEN At(M, i, i) ELSE 0) = 0

is_canonical_form(M) ==
    LET rank == Cardinality(NonzeroDiag(M))
        \* self.data[:rank, :rank] - np.diag(np.diagonal(self.data[:rank, :rank]))
        block_minus_ref(i, j) ==
            GFAdd(At(M, i, j), IF i = j THEN At(M, i, i) ELSE 0)
    IN  IF CanonicalLoopReturnsFalse(M) THEN FALSE
        ELSE IF \E i \in 0 .. (rank - 1), j \in 0 .. (rank - 1) : block_minus_ref(i, j) # 0
             THEN FALSE
        ELSE \A i \in RowIdx(M), j \in ColIdx(M) : i >= rank => At(M, i, j) = 0

\* ------------------------------------------------------ forward_eliminate
\* mat_a = MatGF2(self.data) if copy else self.  galois.GF2(array) builds a
\* new array (copy=True is its default), so mat_a shares the receiver's
\* storage exactly when no copy was asked for.
SharesReceiverAlways(copy_flag) == TRUE

SharesReceiver(copy_flag) == ~copy_flag

\* mat_a.data[row:, row:].nonzero(): the nonzero entries of the trailing block
TrailingNonzero(M, k) ==
    {p \in DOMAIN M.d : p[1] >= k /\ p[2] >= k /\ M.d[p] # 0}

\* (pivot[0][0] + row, pivot[1][0] + row): nonzero() lists in row-major order
FirstPivot(M, k) ==
    CHOOSE p \in TrailingNonzero(M, k) :
        \A q \in TrailingNonzero(M, k) : p[1] < q[1] \/ (p[1] = q[1] /\ p[2] <= q[2])

UpdatePermutationByPosition(perm, pos, pivot) ==
    [perm EXCEPT ![pos] = perm[pivot], ![pivot] = perm[pos]]

\* former = perm.index(pos); former_pivot = perm.index(pivot);
\* perm[former] = pivot; perm[former_pivot] = pos
UpdatePermutation(perm, pos, pivot) ==
    LET former == Index(perm, pos)
        former_pivot == Index(perm, pivot)
    IN  [perm EXCEPT ![former] = pivot, ![former_pivot] = pos]

EliminateRowsBelow(M, k) == {i \in RowIdx(M) : i > k /\ At(M, i, k) # 0}

\* set(mat_a.data[:, row].nonzero()[0]) - {row}
EliminateRows(M, k) == {i \in RowIdx(M) : At(M, i, k) # 0} \ {k}

\* for eliminate_row in rows: M[eliminate_row, :] += M[k, :]
\* (row k itself is never in the set, so the order of the loop is immaterial)
AddRowInto(M, k, rows) ==
    [M EXCEPT !.d = [p \in DOMAIN M.d |->
        IF p[1] \in rows THEN GFAdd(M.d[p], M.d[<<k, p[2]>>]) ELSE M.d[p]]]

PivotStepSwapNotMirrored(st) ==
    LET k == st.row
        search == At(st.a, k, k) = 0
        none == search /\ TrailingNonzero(st.a, k) = {}
        pivot == IF search /\ ~none THEN FirstPivot(st.a, k) ELSE <<k, k>>
        pivot_row == pivot[1]
        pivot_col == pivot[2]
        a1 == IF pivot_row # k THEN swap_row(st.a, k, pivot_row) ELSE st.a
        b1 == st.b
        rp1 == IF pivot_row # k THEN UpdatePermutation(st.rp, k, pivot_row) ELSE st.rp
        ro1 == IF pivot_row # k THEN SwapOrder(st.ro, k, pivot_row) ELSE st.ro
        a2 == IF pivot_col # k THEN swap_col(a1, k, pivot_col) ELSE a1
        cp1 == IF pivot_col # k THEN UpdatePermutation(st.cp, k, pivot_col) ELSE st.cp
        co1 == IF pivot_col # k THEN SwapOrder(st.co, k, pivot_col) ELSE st.co
        rows == EliminateRows(a2, k)
    IN  IF none THEN [st EXCEPT !.brk = TRUE]
        ELSE [a |-> AddRowInto(a2, k, rows), b |-> AddRowInto(b1, k, rows),
              rp |-> rp1, cp |-> cp1, ro |-> ro1, co |-> co1,
              row |-> k + 1, brk |-> FALSE]

\* One iteration of "for row in range(max_rank)" on the loop state
\* st = [a, b, rp, cp, ro, co, row, brk]; brk is set by the break.
PivotStep(st) ==
    LET k == st.row
        search == At(st.a, k, k) = 0
        none == search /\ TrailingNonzero(st.a, k) = {}
        pivot == IF search /\ ~none THEN FirstPivot(st.a, k) ELSE <<k, k>>
        pivot_row == pivot[1]
        pivot_col == pivot[2]
        a1 == IF pivot_row # k THEN swap_row(st.a, k, pivot_row) ELSE st.a
        b1 == IF pivot_row # k THEN swap_row(st.b, k, pivot_row) ELSE st.b
        rp1 == IF pivot_row # k THEN UpdatePermutation(st.rp, k, pivot_row) ELSE st.rp
        ro1 == IF pivot_row # k THEN SwapOrder(st.ro, k, pivot_row) ELSE st.ro
        a2 == IF pivot_col # k THEN swap_col(a1, k, pivot_col) ELSE a1
        cp1 == IF pivot_col # k THEN UpdatePermutation(st.cp, k, pivot_col) ELSE st.cp
        co1 == IF pivot_col # k THEN SwapOrder(st.co, k, pivot_col) ELSE st.co
        rows == EliminateRows(a2, k)
    IN  IF none THEN [st EXCEPT !.brk = TRUE]
        ELSE [a |-> AddRowInto(a2, k, rows), b |-> AddRowInto(b1, k, rows),
              rp |-> rp1, cp |-> cp1, ro |-> ro1, co |-> co1,
              row |-> k + 1, brk |-> FALSE]

\* max_rank = min(mat_a.data.shape)
MaxRank(M) == Min(NRows(M), NCols(M))

\* the loop state when the pivot loop is entered
LoopStart(M, rhs) ==
    [a |-> M, b |-> rhs, rp |-> Range(NRows(M)), cp |-> Range(NCols(M)),
     ro |-> Range(NRows(M)), co |-> Range(NCols(M)), row |-> 0, brk |-> FALSE]

RECURSIVE RunLoop(_)
\* the whole pivot loop, to its break or to max_rank
\* (the set binding makes each iteration's state a value computed once)
RunLoop(st) ==
    IF st.brk \/ st.row >= MaxRank(st.a) THEN st
    ELSE CHOOSE end \in {RunLoop(nxt) : nxt \in {PivotStep(st)}} : TRUE

\* forward_eliminate(b, copy) run to its return: (mat_a, b, row_permutation,
\* col_permutation); b defaults to np.zeros((rows, 1))
forward_eliminate(M, rhs) == RunLoop(LoopStart(M, rhs))

\* ------------------------------------------------------------- get_rank
\* mat_a = self.forward_eliminate(copy=True)[0] if not self.is_canonical_form()
\*         else self;  len(np.diag(mat_a.data).nonzero()[0])
get_rank(M) ==
    LET m == IF ~is_canonical_form(M) THEN forward_eliminate(M, Zeros(NRows(M), 1)).a ELSE M
    IN  CHOOSE n \in {Cardinality(NonzeroDiag(a)) : a \in {m}} : TRUE

\* the receiver's matrix once get_rank has returned: the elimination runs on
\* the copy made by forward_eliminate(copy=True)
AfterGetRank(M) ==
    IF ~is_canonical_form(M) /\ SharesReceiver(TRUE)
    THEN forward_eliminate(M, Zeros(NRows(M), 1)).a
    ELSE M

\* ---------------------------------------------------- backward_substitute
\* A solution entry: sp.nan, or the XOR of a constant with a set of symbols.
\* Symbol k stands for sympy's x<k>.
Nan == [nan |-> TRUE, c |-> 0, syms |-> {}]

\* sp.true if v == 1 else sp.false
Const(v) == [nan |-> FALSE, c |-> IF v = 1 THEN 1 ELSE 0, syms |-> {}]

\* kernels[k] as an entry
Sym(k) == [nan |-> FALSE, c |-> 0, syms |-> {k}]

\* sol ^= kernels[k] for every k of ks (sympy's Xor cancels a repeated symbol;
\* the indices of one row are distinct)
XorSyms(sol, ks) == [sol EXCEPT !.syms = (sol.syms \ ks) \cup (ks \ sol.syms)]

KernelCountAllColumns(M, rank) == NCols(M)

\* the number of symbols of sp.symbols(f"x0:{self.data.shape[1] - rank}")
KernelCount(M, rank) == NCols(M) - rank

\* sp.symbols("x0:n"): the tuple (x0, ..., x<n-1>), empty for n = 0
Symbols(n) == Range(n)

UnsatisfiableBelowRank(rhs, col, rank) ==
    \E i \in RowIdx(rhs) : i > rank /\ At(rhs, i, col) # 0

\* np.count_nonzero(b_col[rank:]) != 0
Unsatisfiable(rhs, col, rank) ==
    \E i \in RowIdx(rhs) : i >= rank /\ At(rhs, i, col) # 0

PivotSolutionAppended(M, rhs, col, rank, r) ==
    LET src == rank - 1 - r
    IN  XorSyms(Const(At(rhs, src, col)),
                {k \in 0 .. (NCols(M) - rank - 1) : At(M, src, rank + k) # 0})

\* The entry x_col[r], r < rank: rows are visited from rank-1 down to 0 and
\* each sol is inserted at the front, so position r holds row r's solution:
\* b_col[r] XOR the symbols k with self.data[r, rank + k] != 0.
PivotSolution(M, rhs, col, rank, r) ==
    XorSyms(Const(At(rhs, r, col)),
            {k \in 0 .. (NCols(M) - rank - 1) : At(M, r, rank + k) # 0})

\* one x_col of the loop over the columns of b
SolutionColumn(M, rhs, col, rank) ==
    [r \in ColIdx(M) |->
        IF Unsatisfiable(rhs, col, rank) THEN Nan
        ELSE IF r < rank THEN PivotSolution(M, rhs, col, rank, r)
        ELSE Sym(Symbols(KernelCount(M, rank))[r - rank])]

\* x = np.array(x).T: one row per column of M, one column per column of b
SolutionMatrix(M, rhs, rank) ==
    [p \in ColIdx(M) \X ColIdx(rhs) |-> SolutionColumn(M, rhs, p[2], rank)[p[1]]]

\* ------------------------------------------------------------------ inputs
Shapes(maxr, maxc, cells) ==
    {s \in (0 .. maxr) \X (0 .. maxc) : s[1] * s[2] <= cells}

NoRet == [kind |-> "none"]

Unused(M, rhs) ==
    /\ mat_a = M
    /\ alias = TRUE
    /\ copy = FALSE
    /\ row_permutation = Range(NRows(M))
    /\ col_permutation = Range(NCols(M))
    /\ row = 0
    /\ row_order = Range(NRows(M))
    /\ col_order = Range(NCols(M))
    /\ x = <<>>
    /\ kernels = <<>>
    /\ ret = NoRet
    /\ arg = <<>>
    /\ A0 = M
    /\ b0 = rhs
    /\ calls = <<>>
    /\ pc = "start"

\* The caller holds a matrix and a right-hand side with the same row count.
Init ==
    \E s \in Shapes(MaxRows, MaxCols, MaxCells) :
        \E bc \in 1 .. MaxBCols :
            /\ s[1] * bc <= MaxBCells
            /\ data \in MatGF2(s[1], s[2])
            /\ b \in MatGF2(s[1], bc)
            /\ Unused(data, b)

\* ----------------------------------------------------------------- actions
\* forward_eliminate(b, copy): lines 238-244, up to the pivot loop
ForwardEliminateCall ==
    /\ pc = "start"
    /\ \E c \in BOOLEAN :
        /\ copy' = c
        /\ alias' = SharesReceiver(c)
    /\ mat_a' = data
    /\ row_permutation' = Range(NRows(data))
    /\ col_permutation' = Range(NCols(data))
    /\ row_order' = Range(NRows(data))
    /\ col_order' = Range(NCols(data))
    /\ row' = 0
    /\ calls' = Append(calls, "forward_eliminate")
    /\ pc' = "fe_loop"
    /\ UNCHANGED <<data, b, x, kernels, ret, arg, A0, b0>>

LoopState ==
    [a |-> mat_a, b |-> b, rp |-> row_permutation, cp |-> col_permutation,
     ro |-> row_order, co |-> col_order, row |-> row, brk |-> FALSE]

\* one iteration of the pivot loop; its break returns
PivotIteration ==
    /\ pc = "fe_loop"
    /\ row < MaxRank(mat_a)
    /\ \E st \in {PivotStep(LoopState)} :
           /\ mat_a' = st.a
           /\ data' = IF alias THEN st.a ELSE data
           /\ b' = st.b
           /\ row_permutation' = st.rp
           /\ col_permutation' = st.cp
           /\ row_order' = st.ro
           /\ col_order' = st.co
           /\ row' = st.row
           /\ pc' = IF st.brk THEN "fe_done" ELSE "fe_loop"
    /\ UNCHANGED <<alias, copy, x, kernels, ret, arg, A0, b0, calls>>

\* the loop ran to max_rank: return mat_a, b, row_permutation, col_permutation
ForwardEliminateReturn ==
    /\ pc = "fe_loop"
    /\ row >= MaxRank(mat_a)
    /\ pc' = "fe_done"
    /\ UNCHANGED <<data, mat_a, alias, copy, b, row_permutation, col_permutation, row,
                   row_order, col_order, x, kernels, ret, arg, A0, b0, calls>>

\* mat_a.backward_substitute(b): on the caller's matrix as it is, or on the
\* pair forward_eliminate returned.  rank = self.get_rank() comes first, then
\* the kernels and the columns of x; recv is the receiver once get_rank is done.
BackwardSubstitute ==
    /\ pc \in {"start", "fe_done"}
    /\ \E rank \in {get_rank(mat_a)}, recv \in {AfterGetRank(mat_a)} :
           /\ x' = SolutionMatrix(recv, b, rank)
           /\ kernels' = Symbols(KernelCount(recv, rank))
           /\ mat_a' = recv
           /\ data' = IF alias THEN recv ELSE data
    /\ calls' = Append(calls, "backward_substitute")
    /\ pc' = "bs_done"
    /\ UNCHANGED <<alias, copy, b, row_permutation, col_permutation, row,
                   row_order, col_order, ret, arg, A0, b0>>

\* self.get_rank()
GetRank ==
    /\ pc = "start"
    /\ ret' = [kind |-> "int", val |-> get_rank(data)]
    /\ data' = AfterGetRank(data)
    /\ mat_a' = AfterGetRank(data)
    /\ calls' = Append(calls, "get_rank")
    /\ pc' = "rank_done"
    /\ UNCHANGED <<alias, copy, b, row_permutation, col_permutation, row,
                   row_order, col_order, x, kernels, arg, A0, b0>>

\* self.is_canonical_form()
IsCanonicalForm ==
    /\ pc = "start"
    /\ ret' = [kind |-> "bool", val |-> is_canonical_form(data)]
    /\ calls' = Append(calls, "is_canonical_form")
    /\ pc' = "canon_done"
    /\ UNCHANGED <<data, mat_a, alias, copy, b, row_permutation, col_permutation, row,
                   row_order, col_order, x, kernels, arg, A0, b0>>

Next ==
    \/ ForwardEliminateCall
    \/ PivotIteration
    \/ ForwardEliminateReturn
    \/ BackwardSubstitute
    \/ GetRank
    \/ IsCanonicalForm

Spec == Init /\ [][Next]_vars

\* ------------------------------------------------- elementwise algebra
\* numpy's broadcasting rule, which the galois arrays inherit: two shapes go
\* together when, in each dimension, the lengths agree or one of them is 1
Broadcastable(P, Q) ==
    \A dim \in 1 .. 2 : P.shape[dim] = Q.shape[dim] \/ P.shape[dim] = 1 \/ Q.shape[dim] = 1

BroadcastDim(p, q) == IF p = 1 THEN q ELSE p

\* the entry of M that broadcasting reads at (i, j)
Stretched(M, i, j) == At(M, IF NRows(M) = 1 THEN 0 ELSE i, IF NCols(M) = 1 THEN 0 ELSE j)

ValueError == [kind |-> "error", val |-> "ValueError"]

IndexError == [kind |-> "error", val |-> "IndexError"]

\* the ufuncs behind +, -, * and == on GF(2) arrays, on one pair of entries
Ufunc(op, u, v) ==
    CASE op = "add" -> GFAdd(u, v)
      [] op = "subtract" -> GFAdd(u, v)
      [] op = "multiply" -> GFMul(u, v)
      [] op = "equal" -> IF u = v THEN 1 ELSE 0

\* MatGF2(self.data <op> other.data): the broadcast result, or numpy's
\* ValueError when the shapes cannot be broadcast together
Elementwise(op, P, Q) ==
    IF ~Broadcastable(P, Q) THEN ValueError
    ELSE [kind |-> "matrix",
          val |-> [shape |-> <<BroadcastDim(NRows(P), NRows(Q)), BroadcastDim(NCols(P), NCols(Q))>>,
                   d |-> [p \in (0 .. BroadcastDim(NRows(P), NRows(Q)) - 1)
                                   \X (0 .. BroadcastDim(NCols(P), NCols(Q)) - 1) |->
                             Ufunc(op, Stretched(P, p[1], p[2]), Stretched(Q, p[1], p[2]))]]]

\* __add__: self.data + other.data
add(P, Q) == Elementwise("add", P, Q)

\* __sub__: self.data - other.data (subtraction in GF(2) is addition)
subtract(P, Q) == Elementwise("subtract", P, Q)

\* __mul__: self.data * other.data
multiply(P, Q) == Elementwise("multiply", P, Q)

\* __eq__: np.all(self.data == other.data).  For shapes that cannot be
\* broadcast the comparison raises or yields False, depending on the numpy
\* release: both outcomes are kept.
eq(P, Q) ==
    IF Broadcastable(P, Q)
    THEN LET e == Elementwise("equal", P, Q).val
         IN  {[kind |-> "bool", val |-> \A p \in DOMAIN e.d : e.d[p] = 1]}
    ELSE {ValueError, [kind |-> "bool", val |-> FALSE]}

OperandShapes ==
    {s \in Shapes(MaxOperand, MaxOperand, MaxOperandCells) : s[1] >= 1 /\ s[2] >= 1}

\* the two operands of an algebra call: any two matrices, shapes unrelated
InitAlgebra ==
    \E s \in OperandShapes, t \in OperandShapes :
        /\ data \in MatGF2(s[1], s[2])
        /\ b \in MatGF2(t[1], t[2])
        /\ Unused(data, b)

AlgebraFrame ==
    UNCHANGED <<data, mat_a, alias, copy, b, row_permutation, col_permutation, row,
                row_order, col_order, x, kernels, arg, A0, b0>>

Add ==
    /\ pc = "start"
    /\ ret' = add(data, b)
    /\ calls' = Append(calls, "add")
    /\ pc' = "alg_done"
    /\ AlgebraFrame

Subtract ==
    /\ pc = "start"
    /\ ret' = subtract(data, b)
    /\ calls' = Append(calls, "subtract")
    /\ pc' = "alg_done"
    /\ AlgebraFrame

Multiply ==
    /\ pc = "start"
    /\ ret' = multiply(data, b)
    /\ calls' = Append(calls, "multiply")
    /\ pc' = "alg_done"
    /\ AlgebraFrame

Equal ==
    /\ pc = "start"
    /\ ret' \in eq(data, b)
    /\ calls' = Append(calls, "eq")
    /\ pc' = "alg_done"
    /\ AlgebraFrame

NextAlgebra == Add \/ Subtract \/ Multiply \/ Equal

SpecAlgebra == InitAlgebra /\ [][NextAlgebra]_vars

\* ------------------------------------------------ permute_row, permute_col
\* the index lists a caller may pass: length 1..MaxPermLen, entries from 0 up
\* to n (n itself is out of bounds for a dimension of length n)
IndexLists(n) ==
    UNION {[0 .. (len - 1) -> 0 .. n] : len \in 1 .. MaxPermLen}

\* self.data[row_permutation, :]: integer-array indexing takes row
\* row_permutation[i] as row i of the result, whatever the list's length and
\* whether or not an index repeats; an index out of bounds raises IndexError
permute_row(M, perm) ==
    IF \E i \in DOMAIN perm : perm[i] >= NRows(M) THEN IndexError
    ELSE [kind |-> "matrix",
          val |-> [shape |-> <<Cardinality(DOMAIN perm), NCols(M)>>,
                   d |-> [p \in (DOMAIN perm) \X ColIdx(M) |-> At(M, perm[p[1]], p[2])]]]

\* self.data[:, col_permutation]
permute_col(M, perm) ==
    IF \E i \in DOMAIN perm : perm[i] >= NCols(M) THEN IndexError
    ELSE [kind |-> "matrix",
          val |-> [shape |-> <<NRows(M), Cardinality(DOMAIN perm)>>,
                   d |-> [p \in RowIdx(M) \X (DOMAIN perm) |-> At(M, p[1], perm[p[2]])]]]

InitPermute ==
    \E s \in {t \in Shapes(MaxPermDim, MaxPermDim, MaxPermCells) : t[1] >= 1 /\ t[2] >= 1} :
        /\ data \in MatGF2(s[1], s[2])
        /\ b = Zeros(s[1], 1)
        /\ Unused(data, b)

PermuteFrame ==
    UNCHANGED <<alias, copy, b, row_permutation, col_permutation, row,
                row_order, col_order, x, kernels, A0, b0>>

\* the assignment self.data = ... happens only when the indexing succeeded
Permuted(r, name) ==
    /\ ret' = r
    /\ data' = IF r.kind = "matrix" THEN r.val ELSE data
    /\ mat_a' = data'
    /\ pc' = IF r.kind = "matrix" THEN "returned" ELSE "raised"
    /\ calls' = Append(calls, name)
    /\ PermuteFrame

PermuteRow ==
    /\ pc = "start"
    /\ \E perm \in IndexLists(NRows(data)) :
        /\ arg' = perm
        /\ Permuted(permute_row(data, perm), "permute_row")

PermuteCol ==
    /\ pc = "start"
    /\ \E perm \in IndexLists(NCols(data)) :
        /\ arg' = perm
        /\ Permuted(permute_col(data, perm), "permute_col")

NextPermute == PermuteRow \/ PermuteCol

SpecPermute == InitPermute /\ [][NextPermute]_vars

\* ------------------------------------------------- vocabulary of the claims
\* the matrix whose rows are the given tuples
Lit(rws) ==
    [shape |-> <<Len(rws), Len(rws[1])>>,
     d |-> [p \in (0 .. Len(rws) - 1) \X (0 .. Len(rws[1]) - 1) |-> rws[p[1] + 1][p[2] + 1]]]

\* the XOR of the rows S of M
XorRows(M, S) == [j \in ColIdx(M) |-> Cardinality({i \in S : At(M, i, j) = 1}) % 2]

\* the span of the rows of M under XOR
RowSpace(M) == {XorRows(M, S) : S \in SUBSET RowIdx(M)}

\* the GF(2) rank: the dimension of the row space
TrueRank(M) == CHOOSE r \in 0 .. NRows(M) : 2 ^ r = Cardinality(RowSpace(M))

IsBijection(perm, n) ==
    /\ DOMAIN perm = 0 .. (n - 1)
    /\ \A i \in DOMAIN perm : perm[i] \in 0 .. (n - 1)
    /\ \A i, k \in DOMAIN perm : perm[i] = perm[k] => i = k

NumSymbols == Cardinality(DOMAIN kernels)

\* the value of a solution entry when symbol k takes the value v[k]
Eval(e, v) == (e.c + Cardinality({k \in e.syms : v[k] = 1})) % 2

\* x with every symbol replaced by its value under v
XValue(v) == [shape |-> <<NCols(mat_a), NCols(b)>>, d |-> [p \in DOMAIN x |-> Eval(x[p], v)]]

AllZero == [k \in DOMAIN kernels |-> 0]

Assignments == [DOMAIN kernels -> GF2]

\* column j of P.matmul(X) equals column j of rhs
ColumnSolved(P, X, rhs, j) ==
    \A i \in RowIdx(rhs) : At(MatMul(P, X), i, j) = At(rhs, i, j)

\* output column j carries the unsatisfiable marker in every row
Marked(j) == \A r \in ColIdx(mat_a) : x[<<r, j>>].nan

ColumnConstant(j) ==
    \A r \in ColIdx(mat_a) : ~x[<<r, j>>].nan /\ x[<<r, j>>].syms = {}

Eliminated == calls = <<"forward_eliminate", "backward_substitute">>

\* --------------------------------------------------------------- claims
\* --------------------------------------------------------------- claims
\* C1: the matrix forward_eliminate returns satisfies is_canonical_form: with
\* r the number of nonzero diagonal entries, its leading r x r block is the
\* identity and every row of index >= r is zero, whether the loop ran to
\* min(rows, cols) or stopped early.
C1_EliminatedIsCanonical ==
    pc = "fe_done" =>
        LET r == Cardinality(NonzeroDiag(mat_a))
        IN  /\ is_canonical_form(mat_a)
            /\ \A i \in 0 .. (r - 1), j \in 0 .. (r - 1) :
                   At(mat_a, i, j) = IF i = j THEN 1 ELSE 0
            /\ \A i \in RowIdx(mat_a), j \in ColIdx(mat_a) : i >= r => At(mat_a, i, j) = 0

C1_Witness ==
    /\ pc = "fe_done"
    /\ row = 2
    /\ row < MaxRank(mat_a)
    /\ row_permutation # Range(NRows(mat_a))
    /\ \E j \in ColIdx(mat_a) : j >= row /\ At(mat_a, 0, j) = 1

\* C2: get_rank returns the GF(2) rank of the matrix, on the fast path (the
\* matrix is canonical: the count of its nonzero diagonal entries) and on the
\* eliminating path, and the value lies in 0..min(rows, cols).
C2_RankIsRowSpaceDimension ==
    pc = "rank_done" =>
        /\ ret.val = TrueRank(A0)
        /\ ret.val \in 0 .. Min(NRows(A0), NCols(A0))
        /\ is_canonical_form(A0) => ret.val = Cardinality(NonzeroDiag(A0))

C2_Witness ==
    /\ pc = "rank_done"
    /\ ~is_canonical_form(A0)
    /\ ret.val = 2
    /\ Cardinality(NonzeroDiag(A0)) = 0

\* some vector solves column j of P.v == rhs
Solvable(P, rhs, j) ==
    \E v \in [ColIdx(P) -> GF2] :
        \A i \in RowIdx(rhs) :
            Cardinality({k \in ColIdx(P) : At(P, i, k) = 1 /\ v[k] = 1}) % 2 = At(rhs, i, j)

\* C3 as stated: backward_substitute on any full-column-rank receiver (in
\* canonical form or not) returns no free symbol and a solution of boolean
\* constants x with A.matmul(x) == b; read here in the claim's favour, for
\* the columns of b that have a solution at all.
C3_AnyFullColumnRankReceiverSolved ==
    (pc = "bs_done" /\ calls = <<"backward_substitute">>
        /\ NCols(mat_a) >= 1 /\ TrueRank(mat_a) = NCols(mat_a)) =>
        /\ NumSymbols = 0
        /\ \A j \in ColIdx(b) :
              Solvable(mat_a, b, j) =>
                  ColumnConstant(j) /\ ColumnSolved(mat_a, XValue(AllZero), b, j)

\* C3 amended: on a full-column-rank receiver that is in canonical form
\* backward_substitute returns no free symbol; every column of b that has a
\* solution gets a column x of boolean constants with A.matmul(x) == b in
\* that column, and every column without one (nonzero at a row index >= rank)
\* is marked unsatisfiable in every row.
C3_CanonicalFullColumnRankSolved ==
    (pc = "bs_done" /\ is_canonical_form(mat_a) /\ TrueRank(mat_a) = NCols(mat_a)) =>
        /\ NumSymbols = 0
        /\ \A j \in ColIdx(b) :
              /\ Solvable(mat_a, b, j) <=>
                     ~\E i \in RowIdx(b) : i >= NCols(mat_a) /\ At(b, i, j) # 0
              /\ IF Solvable(mat_a, b, j)
                 THEN ColumnConstant(j) /\ ColumnSolved(mat_a, XValue(AllZero), b, j)
                 ELSE \A r \in ColIdx(mat_a) : x[<<r, j>>] = Nan

C3_Witness ==
    /\ pc = "bs_done"
    /\ Eliminated
    /\ ~is_canonical_form(A0)
    /\ TrueRank(mat_a) = NCols(mat_a)
    /\ NCols(mat_a) = 2
    /\ NRows(mat_a) = 3
    /\ ColumnConstant(0)
    /\ x[<<0, 0>>].c = 1
    /\ x[<<1, 0>>].c = 0

\* C4: for a rank-deficient matrix (rank below the column count or below the
\* row count), forward_eliminate followed by backward_substitute on the
\* eliminated pair returns cols - rank free symbols, and in every column not
\* marked unsatisfiable the solution with every free symbol set to 0 is a
\* vector x with A.matmul(x) == b for the eliminated A and b.
C4_RankDeficientParticularSolution ==
    (pc = "bs_done" /\ Eliminated
        /\ (TrueRank(A0) < NCols(A0) \/ TrueRank(A0) < NRows(A0))) =>
        /\ NumSymbols = NCols(A0) - TrueRank(A0)
        /\ \A j \in ColIdx(b) :
              ~Marked(j) =>
                  /\ \A r \in ColIdx(mat_a) : ~x[<<r, j>>].nan
                  /\ ColumnSolved(mat_a, XValue(AllZero), b, j)

C4_Witness ==
    /\ pc = "bs_done"
    /\ Eliminated
    /\ NCols(A0) = 3
    /\ TrueRank(A0) = 1
    /\ NumSymbols = 2
    /\ ~Marked(0)
    /\ x[<<0, 0>>] = [nan |-> FALSE, c |-> 1, syms |-> {0, 1}]
    /\ mat_a # A0

\* C5: backward_substitute decides each column of b on its own: output column
\* j is the unsatisfiable marker in all cols rows exactly when column j of b
\* is nonzero at some row index in rank..rows-1, and otherwise holds no
\* marker.  A = [[1,1],[1,1]], b = [[0],[1]] has rank 1 and an
\* all-unsatisfiable column.
C5_UnsatisfiablePerColumn ==
    pc = "bs_done" =>
        /\ \A j \in ColIdx(b) :
              IF \E i \in RowIdx(b) : i >= TrueRank(mat_a) /\ At(b, i, j) # 0
              THEN \A r \in ColIdx(mat_a) : x[<<r, j>>] = Nan
              ELSE \A r \in ColIdx(mat_a) : ~x[<<r, j>>].nan
        /\ (A0 = Lit(<<<<1, 1>>, <<1, 1>>>>) /\ b0 = Lit(<<<<0>>, <<1>>>>)) =>
              /\ TrueRank(mat_a) = 1
              /\ Cardinality(NonzeroDiag(mat_a)) = 1 \/ ~Eliminated
              /\ DOMAIN x = {<<0, 0>>, <<1, 0>>}
              /\ Marked(0)

C5_Witness ==
    /\ pc = "bs_done"
    /\ Eliminated
    /\ NCols(b) = 2
    /\ NCols(mat_a) = 2
    /\ Marked(0)
    /\ ~x[<<0, 1>>].nan
    /\ ~x[<<1, 1>>].nan
    /\ x[<<0, 1>>].syms # {}

ScenarioA == Lit(<<<<1, 1, 0>>, <<0, 1, 1>>, <<1, 0, 1>>>>)

Scenariob == Lit(<<<<1>>, <<0>>, <<1>>>>)

Scenario == pc = "bs_done" /\ Eliminated /\ A0 = ScenarioA /\ b0 = Scenariob

\* C6 as stated: for A = [[1,1,0],[0,1,1],[1,0,1]], b = [[1],[0],[1]] the
\* elimination reaches rank 3, backward_substitute returns no free symbol and
\* x is a constant vector with A.x == b (mod 2).
C6_ScenarioFullRank ==
    Scenario =>
        /\ Cardinality(NonzeroDiag(mat_a)) = 3
        /\ NumSymbols = 0
        /\ ColumnConstant(0)
        /\ ColumnSolved(A0, XValue(AllZero), b0, 0)

\* C6 amended: for that A and b the elimination reaches the canonical form
\* [[1,0,1],[0,1,1],[0,0,0]] of rank 2 with b = [[1],[0],[0]] and no swap,
\* backward_substitute returns one free symbol x0 and x = (1 XOR x0, x0, x0),
\* and A.x == b (mod 2) for either value of x0.
C6_ScenarioRankTwo ==
    Scenario =>
        /\ mat_a = Lit(<<<<1, 0, 1>>, <<0, 1, 1>>, <<0, 0, 0>>>>)
        /\ b = Lit(<<<<1>>, <<0>>, <<0>>>>)
        /\ Cardinality(NonzeroDiag(mat_a)) = 2
        /\ row_permutation = Range(3) /\ col_permutation = Range(3)
        /\ NumSymbols = 1
        /\ x = (<<0, 0>> :> [nan |-> FALSE, c |-> 1, syms |-> {0}])
               @@ (<<1, 0>> :> [nan |-> FALSE, c |-> 0, syms |-> {0}])
               @@ (<<2, 0>> :> [nan |-> FALSE, c |-> 0, syms |-> {0}])
        /\ \A v \in Assignments : ColumnSolved(A0, XValue(v), b0, 0)

C6_Witness == Scenario /\ NumSymbols = 1 /\ x[<<2, 0>>].syms = {0}

\* C7: throughout a forward_eliminate run row_permutation and col_permutation
\* are bijections, and each maps an index at call time to the position that
\* row (column) occupies now; without a swap they are the identity.
C7_PermutationsTrackPositions ==
    pc \in {"fe_loop", "fe_done"} =>
        /\ IsBijection(row_permutation, NRows(mat_a))
        /\ IsBijection(col_permutation, NCols(mat_a))
        /\ \A i \in RowIdx(mat_a) : row_order[row_permutation[i]] = i
        /\ \A j \in ColIdx(mat_a) : col_order[col_permutation[j]] = j
        /\ row_order = Range(NRows(mat_a)) => row_permutation = Range(NRows(mat_a))
        /\ col_order = Range(NCols(mat_a)) => col_permutation = Range(NCols(mat_a))

C7_Witness ==
    /\ pc = "fe_done"
    /\ row_permutation # row_order
    /\ col_permutation # Range(NCols(mat_a))

\* C8: add, subtract and multiply on operands of different shape never return
\* a matrix obtained by broadcasting: the call fails.
C8_ShapeMismatchFails ==
    (pc = "alg_done" /\ calls[1] \in {"add", "subtract", "multiply"}
        /\ data.shape # b.shape) => ret.kind = "error"

\* What the code does instead: add, subtract and multiply on operands of
\* different shape fail
\* only when in some dimension the two lengths differ and neither is 1; in
\* every other case (a 2x2 and a 1x2 matrix, say) they return the broadcast
\* result: a matrix that has in each dimension the length that is not 1,
\* whose entry (i, j) combines the operands' entries at (i, j), an operand
\* of length 1 in a dimension being read at index 0 there.  The equality
\* test on such operands returns a boolean without failing.
Algebra_DifferentShapesBroadcast ==
    (pc = "alg_done" /\ data.shape # b.shape) =>
        LET fits == \A dim \in 1 .. 2 :
                        data.shape[dim] = b.shape[dim] \/ data.shape[dim] = 1 \/ b.shape[dim] = 1
            rd(M, i, j) == M.d[<<IF M.shape[1] = 1 THEN 0 ELSE i, IF M.shape[2] = 1 THEN 0 ELSE j>>]
        IN  /\ ret.kind = "error" => ~fits
            /\ (fits /\ calls[1] = "eq") => ret.kind = "bool"
            /\ (fits /\ calls[1] # "eq") =>
                  /\ ret.kind = "matrix"
                  /\ \A dim \in 1 .. 2 :
                        ret.val.shape[dim] = Max(data.shape[dim], b.shape[dim])
                  /\ \A i \in RowIdx(ret.val), j \in ColIdx(ret.val) :
                        At(ret.val, i, j) =
                            IF calls[1] = "multiply"
                            THEN rd(data, i, j) * rd(b, i, j)
                            ELSE (rd(data, i, j) + rd(b, i, j)) % 2
            /\ (~fits /\ calls[1] # "eq") => ret.kind = "error"

\* the claim's own example, a 2x2 and a 1x2 matrix: add returns a matrix
C8_Witness ==
    /\ pc = "alg_done"
    /\ calls = <<"add">>
    /\ data.shape = <<2, 2>>
    /\ b.shape = <<1, 2>>
    /\ ret.kind = "matrix"
    /\ ret.val = Lit(<<<<1, 0>>, <<0, 1>>>>)
    /\ data = Lit(<<<<0, 0>>, <<1, 1>>>>)

\* the rows (columns) of M, each with the number of times it occurs
Row(M, i) == [j \in ColIdx(M) |-> At(M, i, j)]

Col(M, j) == [i \in RowIdx(M) |-> At(M, i, j)]

RowBag(M) ==
    [v \in {Row(M, i) : i \in RowIdx(M)} |-> Cardinality({i \in RowIdx(M) : Row(M, i) = v})]

ColBag(M) ==
    [v \in {Col(M, j) : j \in ColIdx(M)} |-> Cardinality({j \in ColIdx(M) : Col(M, j) = v})]

\* C9: permute_row (permute_col) given an index list that is not a bijection
\* on 0..n-1 fails, so a call that returns normally leaves the shape and the
\* multiset of rows (columns) as they were.
C9_NonBijectionFails ==
    [][/\ (calls' # calls /\ calls'[Len(calls')] = "permute_row") =>
            /\ ~IsBijection(arg', NRows(data)) => ret'.kind = "error"
            /\ ret'.kind # "error" => data'.shape = data.shape /\ RowBag(data') = RowBag(data)
       /\ (calls' # calls /\ calls'[Len(calls')] = "permute_col") =>
            /\ ~IsBijection(arg', NCols(data)) => ret'.kind = "error"
            /\ ret'.kind # "error" => data'.shape = data.shape /\ ColBag(data') = ColBag(data)
      ]_vars

\* What the code does instead: permute_row (permute_col) fails only when
\* the index list
\* holds an index out of bounds.  A list that is not a bijection on 0..n-1
\* but whose indices are in bounds returns normally, and the matrix then has
\* one row (column) per list entry, row (column) i being the former row
\* (column) list[i]; when the list is a bijection on 0..n-1 the shape and
\* the multiset of rows (columns) are kept.
Permute_SelectsByIndex ==
    [][/\ (calls' # calls /\ calls'[Len(calls')] = "permute_row") =>
            /\ ret'.kind = "error" <=> \E i \in DOMAIN arg' : arg'[i] \notin RowIdx(data)
            /\ ret'.kind = "error" => data' = data
            /\ ret'.kind # "error" =>
                  /\ data'.shape = <<Cardinality(DOMAIN arg'), NCols(data)>>
                  /\ \A i \in RowIdx(data') : Row(data', i) = Row(data, arg'[i])
            /\ IsBijection(arg', NRows(data)) =>
                  data'.shape = data.shape /\ RowBag(data') = RowBag(data)
       /\ (calls' # calls /\ calls'[Len(calls')] = "permute_col") =>
            /\ ret'.kind = "error" <=> \E i \in DOMAIN arg' : arg'[i] \notin ColIdx(data)
            /\ ret'.kind = "error" => data' = data
            /\ ret'.kind # "error" =>
                  /\ data'.shape = <<NRows(data), Cardinality(DOMAIN arg')>>
                  /\ \A j \in ColIdx(data') : Col(data', j) = Col(data, arg'[j])
            /\ IsBijection(arg', NCols(data)) =>
                  data'.shape = data.shape /\ ColBag(data') = ColBag(data)
      ]_vars

\* [[1,0],[0,1]].permute_row([0, 0]) returns normally with a repeated row
C9_Witness ==
    /\ pc = "returned"
    /\ calls = <<"permute_row">>
    /\ arg = (0 :> 0 @@ 1 :> 0)
    /\ A0 = Lit(<<<<1, 0>>, <<0, 1>>>>)
    /\ data = Lit(<<<<1, 0>>, <<1, 0>>>>)

\* C10: get_rank, is_canonical_form, backward_substitute and forward_eliminate
\* with copy=True leave the receiver as it was; only forward_eliminate with
\* copy=False changes it, and the matrix it returns is the receiver.
C10_ReceiverFrame ==
    [][/\ data' # data => pc = "fe_loop" /\ ~copy
       /\ pc' \in {"rank_done", "canon_done"} => data' = A0
       /\ pc' = "bs_done" => mat_a' = mat_a /\ data' = data
       /\ copy' => data' = A0
       /\ pc' = "fe_done" /\ ~copy' => alias' /\ mat_a' = data']_vars

C10_Witness ==
    /\ pc = "fe_done"
    /\ copy
    /\ mat_a # A0
    /\ data = A0

\* the vector v solves column j of P.v == rhs (mod 2)
VecSolves(P, v, rhs, j) ==
    \A i \in RowIdx(rhs) :
        Cardinality({k \in ColIdx(P) : At(P, i, k) = 1 /\ v[k] = 1}) % 2 = At(rhs, i, j)

\* C11: forward_eliminate keeps the solution set up to the column
\* permutation, after every pivot step and in the result: for every bit
\* vector v and every column of b, A.v == b holds for the matrix and
\* right-hand side at call time exactly when A'.w == b' holds for the current
\* ones, w being v moved by w[col_permutation[j]] = v[j].
C11_SolutionSetPreserved ==
    pc \in {"fe_loop", "fe_done"} =>
        \A v \in [ColIdx(A0) -> GF2], w \in [ColIdx(A0) -> GF2] :
            (\A j \in ColIdx(A0) : w[col_permutation[j]] = v[j]) =>
                \A c \in ColIdx(b0) : VecSolves(A0, v, b0, c) <=> VecSolves(mat_a, w, b, c)

C11_Witness ==
    /\ pc = "fe_loop"
    /\ row = 2
    /\ row < MaxRank(mat_a)
    /\ row_permutation # Range(NRows(mat_a))
    /\ col_permutation # col_order
    /\ b # b0
    /\ \E v \in [ColIdx(A0) -> GF2] :
          /\ VecSolves(A0, v, b0, 0)
          /\ v # [k \in ColIdx(A0) |-> v[col_permutation[k]]]
          /\ \E u \in [ColIdx(A0) -> GF2] : ~VecSolves(A0, u, b0, 0)
====
